---- MODULE Spec2Model ----
(***************************************************************************)
(* Validation model of neuroglancer_json_schemas/viewer_state.py.          *)
(*                                                                         *)
(* The source is a set of pydantic (v1) model declarations.  A JSON        *)
(* document is validated against ViewerState by the field validators that  *)
(* the declarations select: scalar coercion, Optional, Literal, Enum,      *)
(* List, Tuple, Dict, left-to-right Union, discriminated Union and nested  *)
(* models with or without Extra.forbid.  The model keeps the declarations  *)
(* as data (one definition per class, named as in the source) and          *)
(* interprets them with Validate; Serialize is BaseModel.dict().           *)
(*                                                                         *)
(* Values are tagged records.  Floats are kept in hundredths (0.05 is 5,   *)
(* 1.0 is 100) so that int/float/str coercions are computed, not assumed.  *)
(***************************************************************************)
EXTENDS Integers, Sequences, FiniteSets, TLC

VARIABLES target, doc, phase, res, doc2, res2, edit

vars == <<target, doc, phase, res, doc2, res2, edit>>

(***************************************************************************)
(* Bounds of the checked input space.                                      *)
(***************************************************************************)
MaxNum == 2

MaxDepth == 5

MaxRank == 3

(***************************************************************************)
(* Python values (JSON input and validated output).                        *)
(***************************************************************************)
Null == [k |-> "null"]

B(b) == [k |-> "bool", b |-> b]

I(n) == [k |-> "int", n |-> n]

Fl(m) == [k |-> "float", m |-> m]

S(s) == [k |-> "str", s |-> s]

L(items) == [k |-> "list", items |-> items]

Tu(items) == [k |-> "tuple", items |-> items]

O(f) == [k |-> "obj", f |-> f]

M(cls, f) == [k |-> "model", cls |-> cls, f |-> f]

En(s) == [k |-> "enum", s |-> s]

EmptyFn == [x \in {} |-> Null]

IsNumber(v) == v.k \in {"int", "float", "bool"}

\* numeric value in hundredths; Python compares int, float and bool by value
NumVal(v) ==
  CASE v.k = "int" -> 100 * v.n
    [] v.k = "float" -> v.m
    [] v.k = "bool" -> IF v.b THEN 100 ELSE 0

\* repr of a non-negative float held in hundredths: 100 -> "1.0", 5 -> "0.05"
FloatStr(m) ==
  LET w == m \div 100
      r == m % 100
  IN ToString(w) \o "." \o
       (IF r % 10 = 0 THEN ToString(r \div 10)
        ELSE IF r < 10 THEN "0" \o ToString(r) ELSE ToString(r))

\* str(v) for a number
PyStr(v) ==
  CASE v.k = "int" -> ToString(v.n)
    [] v.k = "float" -> FloatStr(v.m)
    [] v.k = "bool" -> IF v.b THEN "True" ELSE "False"

\* int("...") and float("...") on the numerals within the bound
IntOfStr == [s \in {ToString(n) : n \in 0..MaxNum} |->
               CHOOSE n \in 0..MaxNum : ToString(n) = s]

FloatOfStr == [s \in {FloatStr(m) : m \in 0..(100 * MaxNum)} |->
                 CHOOSE m \in 0..(100 * MaxNum) : FloatStr(m) = s]

BoolTrueStrings == {"1", "on", "t", "true", "y", "yes", "True"}

BoolFalseStrings == {"0", "off", "f", "false", "n", "no", "False"}

\* Python ==, deep.  Models compare by class and by field values.
RECURSIVE PyEq(_, _)
PyEq(a, b) ==
  IF IsNumber(a) \/ IsNumber(b)
  THEN IsNumber(a) /\ IsNumber(b) /\ NumVal(a) = NumVal(b)
  ELSE IF a.k \in {"str", "enum"} \/ b.k \in {"str", "enum"}
  THEN a.k \in {"str", "enum"} /\ b.k \in {"str", "enum"} /\ a.s = b.s
  ELSE IF a.k # b.k THEN FALSE
  ELSE CASE a.k = "null" -> TRUE
         [] a.k \in {"list", "tuple"} ->
              /\ Len(a.items) = Len(b.items)
              /\ \A i \in 1..Len(a.items) : PyEq(a.items[i], b.items[i])
         [] a.k = "obj" ->
              /\ DOMAIN a.f = DOMAIN b.f
              /\ \A x \in DOMAIN a.f : PyEq(a.f[x], b.f[x])
         [] a.k = "model" ->
              /\ a.cls = b.cls
              /\ DOMAIN a.f = DOMAIN b.f
              /\ \A x \in DOMAIN a.f : PyEq(a.f[x], b.f[x])

(***************************************************************************)
(* Validation results and error records.                                   *)
(***************************************************************************)
Ok(v) == [ok |-> TRUE, val |-> v, errs |-> <<>>]

Err(loc, type) == [ok |-> FALSE, val |-> Null, errs |-> <<[loc |-> loc, type |-> type]>>]

Fail(errs) == [ok |-> FALSE, val |-> Null, errs |-> errs]

RECURSIVE SetToSeq(_)
SetToSeq(set) ==
  IF set = {} THEN <<>>
  ELSE LET x == CHOOSE y \in set : TRUE IN <<x>> \o SetToSeq(set \ {x})

\* list indices appear in error locations as "0", "1", ...
Idx(i) == ToString(i - 1)

(***************************************************************************)
(* Type descriptors: the annotations of the source.                        *)
(***************************************************************************)
TStr == [t |-> "str"]

TFloat == [t |-> "float"]

TInt == [t |-> "int"]

TBool == [t |-> "bool"]

TNone == [t |-> "none"]

TLit(vals) == [t |-> "literal", vals |-> vals]

TEnum(members) == [t |-> "enum", members |-> members]

TList(e) == [t |-> "list", e |-> e]

TTuple(items) == [t |-> "tuple", items |-> items]

TDict(key, e) == [t |-> "dict", key |-> key, e |-> e]

TOpt(e) == [t |-> "optional", e |-> e]

TUnion(alts) == [t |-> "union", alts |-> alts]

TModel(cls) == [t |-> "model", cls |-> cls]

TDisc(key, alts) == [t |-> "disc", key |-> key, alts |-> alts]

\* field declarations:  x: T   /   x: Optional[T]   /   x: Optional[T] = d   /   x: T = d
Req(n, T) == [name |-> n, type |-> T, required |-> TRUE, default |-> Null]

Opt(n, T) == [name |-> n, type |-> TOpt(T), required |-> FALSE, default |-> Null]

OptD(n, T, d) == [name |-> n, type |-> TOpt(T), required |-> FALSE, default |-> d]

Def(n, T, d) == [name |-> n, type |-> T, required |-> FALSE, default |-> d]

FieldNames(cls) == {cls.fields[i].name : i \in 1..Len(cls.fields)}

\* class Sub(Base): own fields override in place, new ones are appended
Subclass(base, name, own) ==
  LET ownNames == {own[i].name : i \in 1..Len(own)}
      pick(n) == own[CHOOSE i \in 1..Len(own) : own[i].name = n]
      kept == [i \in 1..Len(base.fields) |->
                 IF base.fields[i].name \in ownNames
                 THEN pick(base.fields[i].name) ELSE base.fields[i]]
      added == SelectSeq(own, LAMBDA fd : fd.name \notin FieldNames(base))
  IN [name |-> name, extra |-> base.extra, fields |-> kept \o added]

(***************************************************************************)
(* Scalar validators.                                                      *)
(***************************************************************************)
StrValidator(v, loc) ==
  IF v.k = "str" THEN Ok(v)
  ELSE IF v.k = "enum" THEN Ok(S(v.s))
  ELSE IF IsNumber(v) THEN Ok(S(PyStr(v)))
  ELSE Err(loc, "type_error.str")

FloatValidator(v, loc) ==
  IF IsNumber(v) THEN Ok(Fl(NumVal(v)))
  ELSE IF v.k = "str" /\ v.s \in DOMAIN FloatOfStr THEN Ok(Fl(FloatOfStr[v.s]))
  ELSE IF v.k = "str" /\ v.s \in DOMAIN IntOfStr THEN Ok(Fl(100 * IntOfStr[v.s]))
  ELSE Err(loc, "type_error.float")

IntValidator(v, loc) ==
  IF IsNumber(v) THEN Ok(I(NumVal(v) \div 100))
  ELSE IF v.k = "str" /\ v.s \in DOMAIN IntOfStr THEN Ok(I(IntOfStr[v.s]))
  ELSE Err(loc, "type_error.integer")

BoolValidator(v, loc) ==
  IF IsNumber(v) /\ NumVal(v) \in {0, 100} THEN Ok(B(NumVal(v) = 100))
  ELSE IF v.k = "str" /\ v.s \in BoolTrueStrings THEN Ok(B(TRUE))
  ELSE IF v.k = "str" /\ v.s \in BoolFalseStrings THEN Ok(B(FALSE))
  ELSE Err(loc, "type_error.bool")

NoneValidator(v, loc) ==
  IF v.k = "null" THEN Ok(Null) ELSE Err(loc, "type_error.not_none")

\* Literal[...]: the value is looked up among the permitted choices
LiteralValidator(vals, v, loc) ==
  IF v.k \in {"str", "int", "float", "bool"} /\ \E c \in vals : PyEq(c, v)
  THEN Ok(CHOOSE c \in vals : PyEq(c, v))
  ELSE Err(loc, "value_error.const")

\* Enum(v): lookup by value
EnumValidator(members, v, loc) ==
  IF v.k \in {"str", "enum"} /\ v.s \in members THEN Ok(En(v.s))
  ELSE Err(loc, "type_error.enum")

SequenceLike(v) == v.k \in {"list", "tuple"}

\* dict(v) as the mapping and model validators call it: a dict stays, a
\* sequence of pairs converts, anything else raises
IsPair(x) == SequenceLike(x) /\ Len(x.items) = 2 /\ x.items[1].k \in {"str", "int", "float", "bool", "null"}

DictCoercible(v) ==
  \/ v.k = "obj"
  \/ SequenceLike(v) /\ \A i \in 1..Len(v.items) : IsPair(v.items[i])

\* the items of dict(v), in order, each <<key value, value>>
DictItems(v) ==
  IF v.k = "obj"
  THEN LET keys == SetToSeq(DOMAIN v.f)
       IN [i \in 1..Len(keys) |-> <<S(keys[i]), v.f[keys[i]]>>]
  ELSE [i \in 1..Len(v.items) |-> <<v.items[i].items[1], v.items[i].items[2]>>]

\* the key of a dict item as it appears in an error location
KeyStr(kv) == IF kv.k = "str" THEN kv.s ELSE IF kv.k = "null" THEN "None" ELSE PyStr(kv)

(***************************************************************************)
(* Field validation (pydantic ModelField.validate), dispatched on the      *)
(* declared type.  None is settled first: Optional lets it through, every  *)
(* other type refuses it.                                                  *)
(***************************************************************************)
RECURSIVE Validate(_, _, _)
RECURSIVE ValidateEach(_, _, _, _, _)
RECURSIVE ValidateUnion(_, _, _, _)
RECURSIVE ValidateFields(_, _, _, _, _)
RECURSIVE ValidateMapping(_, _, _, _, _)

\* items[lo..hi], item j against types[j]; every item is validated and all
\* errors kept, in item order
ValidateEach(types, items, lo, hi, loc) ==
  IF lo > hi THEN [ok |-> TRUE, vals |-> <<>>, errs |-> <<>>]
  ELSE IF lo = hi
  THEN LET h == Validate(types[lo], items[lo], loc \o <<Idx(lo)>>)
       IN [ok |-> h.ok, vals |-> <<h.val>>, errs |-> h.errs]
  ELSE LET mid == (lo + hi) \div 2
           a == ValidateEach(types, items, lo, mid, loc)
           b == ValidateEach(types, items, mid + 1, hi, loc)
       IN [ok |-> a.ok /\ b.ok, vals |-> a.vals \o b.vals, errs |-> a.errs \o b.errs]

\* Union[...]: the first alternative that validates wins, left to right
ValidateUnion(alts, v, i, loc) ==
  IF i > Len(alts) THEN Fail(<<>>)
  ELSE LET h == Validate(alts[i], v, loc)
       IN IF h.ok THEN h
          ELSE LET t == ValidateUnion(alts, v, i + 1, loc)
               IN IF t.ok THEN t ELSE Fail(h.errs \o t.errs)

\* a bug that treats a key present with null like an absent key
FieldValueNullAsAbsent(fd, f, loc) ==
  IF fd.name \in DOMAIN f /\ f[fd.name] # Null
  THEN Validate(fd.type, f[fd.name], loc \o <<fd.name>>)
  ELSE IF fd.required THEN Err(loc \o <<fd.name>>, "value_error.missing")
  ELSE Ok(fd.default)

\* one declared field of a model: a present key is validated (null included);
\* an absent key takes the default unvalidated, or is an error when required
FieldValue(fd, f, loc) ==
  IF fd.name \in DOMAIN f
  THEN Validate(fd.type, f[fd.name], loc \o <<fd.name>>)
  ELSE IF fd.required THEN Err(loc \o <<fd.name>>, "value_error.missing")
  ELSE Ok(fd.default)

\* validate_model: the declared fields lo..hi, in order
ValidateFields(cls, f, lo, hi, loc) ==
  IF lo > hi THEN [ok |-> TRUE, vals |-> EmptyFn, errs |-> <<>>]
  ELSE IF lo = hi
  THEN LET fd == cls.fields[lo]
           h == FieldValue(fd, f, loc)
       IN [ok |-> h.ok, vals |-> (fd.name :> h.val), errs |-> h.errs]
  ELSE LET mid == (lo + hi) \div 2
           a == ValidateFields(cls, f, lo, mid, loc)
           b == ValidateFields(cls, f, mid + 1, hi, loc)
       IN [ok |-> a.ok /\ b.ok, vals |-> a.vals @@ b.vals, errs |-> a.errs \o b.errs]

\* Dict[K, V]: keys and values of items lo..hi validated; a later item
\* replaces an equal key
ValidateMapping(T, items, lo, hi, loc) ==
  IF lo > hi THEN [ok |-> TRUE, vals |-> EmptyFn, errs |-> <<>>]
  ELSE IF lo = hi
  THEN LET kr == Validate(T.key, items[lo][1], loc \o <<KeyStr(items[lo][1]), "__key__">>)
           vr == Validate(T.e, items[lo][2], loc \o <<KeyStr(items[lo][1])>>)
           key == IF kr.ok THEN KeyStr(kr.val) ELSE "None"
       IN [ok |-> kr.ok /\ vr.ok, vals |-> (key :> vr.val), errs |-> kr.errs \o vr.errs]
  ELSE LET mid == (lo + hi) \div 2
           a == ValidateMapping(T, items, lo, mid, loc)
           b == ValidateMapping(T, items, mid + 1, hi, loc)
       IN [ok |-> a.ok /\ b.ok, vals |-> b.vals @@ a.vals, errs |-> a.errs \o b.errs]

\* Model.validate: the value must be (convertible to) a dict with string
\* keys; then the fields, then the keys that are no field (Config.extra)
ModelValidate(cls, v, loc) ==
  IF ~DictCoercible(v) THEN Err(loc, "type_error.dict")
  ELSE LET items == DictItems(v)
           n == Len(items)
       IN IF \E i \in 1..n : items[i][1].k # "str" THEN Err(loc, "type_error")
          ELSE LET last(x) == CHOOSE i \in 1..n :
                                /\ items[i][1].s = x
                                /\ \A j \in (i + 1)..n : items[j][1].s # x
                   f == [x \in {items[i][1].s : i \in 1..n} |-> items[last(x)][2]]
                   r == ValidateFields(cls, f, 1, Len(cls.fields), loc)
                   extra == SetToSeq(DOMAIN f \ FieldNames(cls))
                   extraErrs == IF cls.extra = "forbid"
                                THEN [i \in 1..Len(extra) |->
                                        [loc |-> loc \o <<extra[i]>>, type |-> "value_error.extra"]]
                                ELSE <<>>
               IN IF r.ok /\ Len(extraErrs) = 0 THEN Ok(M(cls.name, r.vals))
                  ELSE Fail(r.errs \o extraErrs)

\* the Literal values of a variant's discriminator field
DiscriminatorValues(cls, key) ==
  (cls.fields[CHOOSE i \in 1..Len(cls.fields) : cls.fields[i].name = key]).type.vals

\* Field(discriminator=key): the variant is looked up by the key's value alone
DiscriminatedValidate(T, v, loc) ==
  IF v.k # "obj" \/ T.key \notin DOMAIN v.f
  THEN Err(loc, "value_error.discriminated_union.missing_discriminator")
  ELSE LET d == v.f[T.key]
           hits == {i \in 1..Len(T.alts) :
                      d.k \in {"str", "int", "float", "bool"}
                      /\ \E c \in DiscriminatorValues(T.alts[i], T.key) : PyEq(c, d)}
       IN IF d.k \in {"list", "tuple", "obj"} THEN Err(loc, "config_error.unhashable")
          ELSE IF hits = {}
          THEN Err(loc, "value_error.discriminated_union.invalid_discriminator")
          ELSE LET cls == T.alts[CHOOSE i \in hits : TRUE]
               IN ModelValidate(cls, v, loc \o <<cls.name>>)

Validate(T, v, loc) ==
  IF T.t = "optional" THEN (IF v.k = "null" THEN Ok(Null) ELSE Validate(T.e, v, loc))
  ELSE IF v.k = "null" /\ T.t # "none" THEN Err(loc, "type_error.none.not_allowed")
  ELSE CASE T.t = "str" -> StrValidator(v, loc)
         [] T.t = "float" -> FloatValidator(v, loc)
         [] T.t = "int" -> IntValidator(v, loc)
         [] T.t = "bool" -> BoolValidator(v, loc)
         [] T.t = "none" -> NoneValidator(v, loc)
         [] T.t = "literal" -> LiteralValidator(T.vals, v, loc)
         [] T.t = "enum" -> EnumValidator(T.members, v, loc)
         [] T.t = "list" ->
              IF ~SequenceLike(v) THEN Err(loc, "type_error.list")
              ELSE LET r == ValidateEach([i \in 1..Len(v.items) |-> T.e], v.items, 1, Len(v.items), loc)
                   IN IF r.ok THEN Ok(L(r.vals)) ELSE Fail(r.errs)
         [] T.t = "tuple" ->
              IF ~SequenceLike(v) THEN Err(loc, "type_error.tuple")
              ELSE IF Len(v.items) # Len(T.items) THEN Err(loc, "value_error.tuple.length")
              ELSE LET r == ValidateEach(T.items, v.items, 1, Len(v.items), loc)
                   IN IF r.ok THEN Ok(Tu(r.vals)) ELSE Fail(r.errs)
         [] T.t = "dict" ->
              IF ~DictCoercible(v) THEN Err(loc, "type_error.dict")
              ELSE LET items == DictItems(v)
                       r == ValidateMapping(T, items, 1, Len(items), loc)
                   IN IF r.ok THEN Ok(O(r.vals)) ELSE Fail(r.errs)
         [] T.t = "union" -> ValidateUnion(T.alts, v, 1, loc)
         [] T.t = "disc" -> DiscriminatedValidate(T, v, loc)
         [] T.t = "model" -> ModelValidate(T.cls, v, loc)

\* a dict() that leaves out the fields holding None (exclude_none)
RECURSIVE SerializeExcludeNone(_)
SerializeExcludeNone(v) ==
  CASE v.k = "model" ->
         O([x \in {y \in DOMAIN v.f : v.f[y] # Null} |-> SerializeExcludeNone(v.f[x])])
    [] v.k = "obj" -> O([x \in DOMAIN v.f |-> SerializeExcludeNone(v.f[x])])
    [] v.k = "list" -> L([i \in 1..Len(v.items) |-> SerializeExcludeNone(v.items[i])])
    [] v.k = "tuple" -> Tu([i \in 1..Len(v.items) |-> SerializeExcludeNone(v.items[i])])
    [] OTHER -> v

\* BaseModel.dict(): models become dicts of all their fields, recursively
\* through lists, tuples and dicts; None fields and defaults are emitted
RECURSIVE Serialize(_)
Serialize(v) ==
  CASE v.k = "model" -> O([x \in DOMAIN v.f |-> Serialize(v.f[x])])
    [] v.k = "obj" -> O([x \in DOMAIN v.f |-> Serialize(v.f[x])])
    [] v.k = "list" -> L([i \in 1..Len(v.items) |-> Serialize(v.items[i])])
    [] v.k = "tuple" -> Tu([i \in 1..Len(v.items) |-> Serialize(v.items[i])])
    [] OTHER -> v

(***************************************************************************)
(* The declarations of viewer_state.py.                                    *)
(***************************************************************************)
PointType == TTuple(<<TFloat, TFloat, TFloat>>)

LayerTypeLiteral == TLit({S("new"), S("image"), S("segmentation"), S("annotation"), S("mesh")})

DataPanelLayoutTypes ==
  TLit({S("xy"), S("yz"), S("xz"), S("xy-3d"), S("yz-3d"), S("xz-3d"), S("4panel"), S("3d")})

NavigationLinkType == TLit({S("linked"), S("unlinked"), S("relative")})

Quaternion == TTuple(<<TFloat, TFloat, TFloat, TFloat>>)

\* class Linked(GenericModel, Generic[T]): pydantic's default Config, extra keys ignored
Linked(T) ==
  [name |-> "Linked", extra |-> "ignore",
   fields |-> <<OptD("link", NavigationLinkType, S("linked")), Opt("value", T)>>]

\* a Model base class that forgets Config.extra
ModelIgnoringExtra == [name |-> "Model", extra |-> "ignore", fields |-> <<>>]

\* class Model(BaseModel): Config.extra = Extra.forbid
Model == [name |-> "Model", extra |-> "forbid", fields |-> <<>>]

ToolNameEnum ==
  {"annotatePoint", "annotateLine", "annotateBoundingBox", "annotateSphere", "blend",
   "opacity", "crossSectionRenderScale", "selectedAlpha", "notSelectedAlpha",
   "objectAlpha", "hideSegmentZero", "baseSegmentColoring", "ignoreNullVisibleSet",
   "colorSeed", "segmentDefaultColor", "meshRenderScale", "saturation",
   "skeletonRendering.mode2d", "skeletonRendering.lineWidth2d",
   "skeletonRendering.lineWidth3d", "shaderControl", "mergeSegments", "splitSegments",
   "selectSegments"}

Tool == Subclass(Model, "Tool", <<Req("type", TEnum(ToolNameEnum))>>)

SidePanelLocation ==
  Subclass(Model, "SidePanelLocation",
    <<OptD("flex", TFloat, Fl(100)), Opt("side", TStr), Opt("visible", TBool),
      Opt("size", TInt), Opt("row", TInt), Opt("col", TInt)>>)

SelectedLayerState == Subclass(SidePanelLocation, "SelectedLayerState", <<Opt("layer", TStr)>>)

StatisticsDisplayState == Subclass(SidePanelLocation, "StatisticsDisplayState", <<>>)

LayerSidePanelState ==
  Subclass(SidePanelLocation, "LayerSidePanelState",
    <<Opt("tab", TStr), Req("tabs", TList(TStr))>>)

HelpPanelState == Subclass(SidePanelLocation, "HelpPanelState", <<>>)

LayerListPanelState == Subclass(SidePanelLocation, "LayerListPanelState", <<>>)

CoordinateArray ==
  Subclass(Model, "CoordinateArray",
    <<Req("coordinates", TList(TStr)), Req("labels", TList(TStr))>>)

DimensionScale ==
  TUnion(<<TTuple(<<TFloat, TStr>>), TTuple(<<TNone, TNone, TModel(CoordinateArray)>>)>>)

CoordinateSpace == TDict(TStr, DimensionScale)

CoordinateSpaceTransform ==
  Subclass(Model, "CoordinateSpaceTransform",
    <<Req("outputDimensions", CoordinateSpace), Opt("inputDimensions", CoordinateSpace),
      Opt("sourceRank", TInt), Req("matrix", TList(TList(TInt)))>>)

LayerDataSource ==
  Subclass(Model, "LayerDataSource",
    <<Req("url", TStr), Opt("transform", TModel(CoordinateSpaceTransform)),
      Req("subsources", TDict(TStr, TBool)),
      OptD("enableDefaultSubsources", TBool, B(TRUE))>>)

Layer ==
  Subclass(Model, "Layer",
    <<Req("source", TUnion(<<TList(TUnion(<<TStr, TModel(LayerDataSource)>>)), TStr,
                             TModel(LayerDataSource)>>)),
      Req("name", TStr), Opt("visible", TBool), Opt("tab", TStr),
      Opt("type", LayerTypeLiteral), Opt("layerDimensions", CoordinateSpace),
      Opt("layerPosition", TFloat), Opt("panels", TList(TModel(LayerSidePanelState))),
      Opt("pick", TBool), Opt("tool_bindings", TDict(TStr, TModel(Tool))),
      Opt("tool", TModel(Tool))>>)

AnnotationLayerOptions ==
  Subclass(Model, "AnnotationLayerOptions", <<Opt("annotationColor", TStr)>>)

InvlerpParameters ==
  Subclass(Model, "InvlerpParameters",
    <<Opt("range", TTuple(<<TFloat, TFloat>>)), Opt("window", TTuple(<<TFloat, TFloat>>)),
      Opt("channel", TList(TInt))>>)

ShaderControls == TUnion(<<TFloat, TStr, TModel(InvlerpParameters), TDict(TStr, TFloat)>>)

NewLayer == Subclass(Layer, "NewLayer", <<Req("type", TLit({S("new")}))>>)

ImageLayer ==
  Subclass(Layer, "ImageLayer",
    <<Req("type", TLit({S("image")})), Opt("shader", TStr),
      Opt("shaderControls", ShaderControls), Def("opacity", TFloat, Fl(5)),
      Opt("blend", TStr), OptD("crossSectionRenderScale", TFloat, Fl(100))>>)

SkeletonRenderingOptions ==
  Subclass(Model, "SkeletonRenderingOptions",
    <<Req("shader", TStr), Req("shaderControls", ShaderControls), Opt("mode2d", TStr),
      OptD("lineWidth2d", TFloat, Fl(200)), Opt("mode3d", TStr),
      OptD("lineWidth3d", TFloat, Fl(100))>>)

SegmentationLayer ==
  Subclass(Layer, "SegmentationLayer",
    <<Req("type", TLit({S("segmentation")})), Opt("segments", TList(TStr)),
      Opt("equivalences", TDict(TInt, TInt)), OptD("hideSegmentZero", TBool, B(TRUE)),
      OptD("selectedAlpha", TFloat, Fl(50)), OptD("notSelectedAlpha", TFloat, Fl(0)),
      OptD("objectAlpha", TFloat, Fl(100)), OptD("saturation", TFloat, Fl(100)),
      OptD("ignoreNullVisibleSet", TBool, B(TRUE)),
      Opt("skeletonRendering", TModel(SkeletonRenderingOptions)),
      OptD("colorSeed", TInt, I(0)), OptD("crossSectionRenderScale", TFloat, Fl(100)),
      OptD("meshRenderScale", TFloat, Fl(1000)),
      OptD("meshSilhouetteRendering", TFloat, Fl(0)), Opt("segmentQuery", TStr),
      Opt("segmentColors", TDict(TInt, TStr)), Opt("segmentDefaultColor", TStr),
      Opt("linkedSegmentationGroup", TStr),
      Opt("linkedSegmentationColorGroup", TUnion(<<TStr, TLit({B(FALSE)})>>))>>)

MeshLayer ==
  Subclass(Layer, "MeshLayer",
    <<Req("type", TLit({S("mesh")})), Opt("vertexAttributeSources", TList(TStr)),
      Req("shader", TStr), Opt("vertexAttributeNames", TList(TOpt(TStr)))>>)

AnnotationBase ==
  Subclass(Model, "AnnotationBase",
    <<Opt("id", TStr), Req("type", TStr), Opt("description", TStr),
      Opt("segments", TList(TInt)), Req("props", TList(TUnion(<<TInt, TStr>>)))>>)

PointAnnotation ==
  Subclass(AnnotationBase, "PointAnnotation", <<Req("point", TList(TFloat))>>)

LineAnnotation ==
  Subclass(AnnotationBase, "LineAnnotation",
    <<Req("pointA", TList(TFloat)), Req("pointB", TList(TFloat))>>)

AxisAlignedBoundingBoxAnnotation == LineAnnotation

EllipsoidAnnotation ==
  Subclass(AnnotationBase, "EllipsoidAnnotation",
    <<Req("center", TList(TFloat)), Req("radii", TList(TFloat))>>)

Annotations ==
  TUnion(<<TModel(PointAnnotation), TModel(LineAnnotation), TModel(EllipsoidAnnotation),
           TModel(AxisAlignedBoundingBoxAnnotation)>>)

AnnotationPropertySpec ==
  Subclass(Model, "AnnotationPropertySpec",
    <<Req("id", TStr), Req("type", TStr), Opt("description", TStr),
      Opt("default", TUnion(<<TFloat, TStr>>)),
      Opt("enum_values", TList(TUnion(<<TFloat, TStr>>))), Opt("enum_labels", TList(TStr))>>)

\* class AnnotationLayer(Layer, AnnotationLayerOptions)
AnnotationLayer ==
  Subclass(Subclass(AnnotationLayerOptions, "Layer", Layer.fields), "AnnotationLayer",
    <<Req("type", TLit({S("annotation")})), Opt("annotations", TList(Annotations)),
      Opt("annotationProperties", TList(TModel(AnnotationPropertySpec))),
      Opt("annotationRelationships", TList(TStr)),
      Req("linkedSegmentationLayer", TDict(TStr, TStr)),
      Req("filterBySegmentation", TList(TStr)),
      OptD("ignoreNullSegmentFilter", TBool, B(TRUE)), Opt("shader", TStr),
      Opt("shaderControls", ShaderControls)>>)

LayerVariants == <<ImageLayer, SegmentationLayer, AnnotationLayer, MeshLayer, NewLayer>>

\* the layer union without Field(discriminator="type"): a plain left-to-right Union
LayerTypeUndiscriminated == TUnion([i \in 1..Len(LayerVariants) |-> TModel(LayerVariants[i])])

LayerType == TDisc("type", LayerVariants)

CrossSection ==
  Subclass(Model, "CrossSection",
    <<Def("width", TInt, I(1000)), Def("height", TInt, I(1000)),
      Req("position", TModel(Linked(TList(TFloat)))),
      Req("orientation", TModel(Linked(Quaternion))),
      Req("scale", TModel(Linked(TFloat)))>>)

DataPanelLayout ==
  Subclass(Model, "DataPanelLayout",
    <<Req("type", TStr), Req("crossSections", TDict(TStr, TModel(CrossSection))),
      Opt("orthographicProjection", TBool)>>)

LayerGroupViewer ==
  Subclass(Model, "LayerGroupViewer",
    <<Req("type", TStr), Req("layers", TList(TStr)), Req("layout", TModel(DataPanelLayout)),
      Req("position", TModel(Linked(TList(TFloat)))),
      Req("crossSectionOrientation", TModel(Linked(Quaternion))),
      Req("crossSectionScale", TModel(Linked(TFloat))),
      Req("crossSectionDepth", TModel(Linked(TFloat))),
      Req("projectionOrientation", TModel(Linked(TTuple(<<TFloat, TFloat, TFloat, TFloat>>)))),
      Req("projectionScale", TModel(Linked(TFloat))),
      Req("projectionDepth", TModel(Linked(TFloat)))>>)

LayoutSpecification ==
  TUnion(<<TStr, TModel(LayerGroupViewer), TModel(DataPanelLayout)>>)

StackLayout ==
  Subclass(Model, "StackLayout",
    <<Req("type", TLit({S("row"), S("column")})),
      Req("children", TList(LayoutSpecification))>>)

ViewerState ==
  Subclass(Model, "ViewerState",
    <<Opt("title", TStr), Opt("dimensions", CoordinateSpace),
      Opt("relativeDisplayScales", TDict(TStr, TFloat)),
      Opt("displayDimensions", TList(TStr)),
      Opt("position", TTuple(<<TFloat, TFloat, TFloat>>)),
      Opt("crossSectionOrientation", Quaternion), Opt("crossSectionScale", TFloat),
      Opt("crossSectionDepth", TFloat), Opt("projectionScale", TFloat),
      Opt("projectionDeth", TFloat), Opt("projectionOrientation", Quaternion),
      OptD("showSlices", TBool, B(TRUE)), OptD("showAxisLines", TBool, B(TRUE)),
      OptD("showScaleBar", TBool, B(TRUE)), OptD("showDefaultAnnotations", TBool, B(TRUE)),
      Opt("gpuMemoryLimit", TInt), Opt("systemMemoryLimit", TInt),
      Opt("concurrentDownloads", TInt), OptD("prefetch", TBool, B(TRUE)),
      Req("layers", TList(LayerType)), Req("layout", LayoutSpecification),
      Opt("crossSectionBackgroundColor", TStr), Opt("projectionBackgroundColor", TStr),
      Opt("selectedLayer", TModel(SelectedLayerState)),
      Opt("statistics", TModel(StatisticsDisplayState)),
      Opt("helpPanel", TModel(HelpPanelState)),
      Opt("layerListPanel", TModel(LayerListPanelState)),
      OptD("partialViewport", Quaternion, Tu(<<I(0), I(0), I(1), I(1)>>)),
      Opt("selection", TDict(TStr, TInt))>>)

(***************************************************************************)
(* Entry points: a document is validated as a ViewerState, or (for the     *)
(* layout class the root never refers to) as a StackLayout.                *)
(***************************************************************************)
TargetType(name) ==
  CASE name = "ViewerState" -> TModel(ViewerState)
    [] name = "StackLayout" -> TModel(StackLayout)

validate(name, document) == Validate(TargetType(name), document, <<>>)

serialize(value) == Serialize(value)

(***************************************************************************)
(* Documents and paths into them.  A path is a sequence of dict keys and   *)
(* list indices (as "0", "1", ...).                                        *)
(***************************************************************************)
WithKey(f, key, v) == (key :> v) @@ f

Without(f, key) == [x \in DOMAIN f \ {key} |-> f[x]]

Step(v, s) ==
  IF v.k \in {"obj", "model"} THEN v.f[s]
  ELSE v.items[CHOOSE i \in 1..Len(v.items) : Idx(i) = s]

HasStep(v, s) ==
  IF v.k \in {"obj", "model"} THEN s \in DOMAIN v.f
  ELSE IF v.k \in {"list", "tuple"} THEN \E i \in 1..Len(v.items) : Idx(i) = s
  ELSE FALSE

RECURSIVE HasPath(_, _)
HasPath(v, p) ==
  IF p = <<>> THEN TRUE
  ELSE IF HasStep(v, Head(p)) THEN HasPath(Step(v, Head(p)), Tail(p)) ELSE FALSE

RECURSIVE GetAt(_, _)
GetAt(v, p) == IF p = <<>> THEN v ELSE GetAt(Step(v, Head(p)), Tail(p))

\* v with the node at path p replaced by w
RECURSIVE ReplaceAt(_, _, _)
ReplaceAt(v, p, w) ==
  IF p = <<>> THEN w
  ELSE IF v.k = "obj"
  THEN O([x \in DOMAIN v.f |->
            IF x = Head(p) THEN ReplaceAt(v.f[x], Tail(p), w) ELSE v.f[x]])
  ELSE [v EXCEPT !.items = [i \in 1..Len(v.items) |->
            IF Idx(i) = Head(p) THEN ReplaceAt(v.items[i], Tail(p), w) ELSE v.items[i]]]

\* the paths of a validated value at which a model instance sits
RECURSIVE ModelPaths(_)
ModelPaths(v) ==
  LET below ==
        IF v.k \in {"obj", "model"}
        THEN UNION {{<<x>> \o p : p \in ModelPaths(v.f[x])} : x \in DOMAIN v.f}
        ELSE IF v.k \in {"list", "tuple"}
        THEN UNION {{<<Idx(i)>> \o p : p \in ModelPaths(v.items[i])} : i \in 1..Len(v.items)}
        ELSE {}
  IN (IF v.k = "model" THEN {<<>>} ELSE {}) \cup below

(***************************************************************************)
(* The bounded input space: ViewerState documents built from each layer    *)
(* variant's required fields, one varied item at a time.                   *)
(***************************************************************************)
Url == S("precomputed://a")

RequiredSample ==
  [source |-> Url, name |-> S("a"), shader |-> S("void main(){}"),
   linkedSegmentationLayer |-> O(EmptyFn), filterBySegmentation |-> L(<<>>)]

RequiredNames(cls) ==
  {cls.fields[i].name : i \in {j \in 1..Len(cls.fields) : cls.fields[j].required}}

\* a layer document holding only the variant's required fields, `type` among them
MinimalLayer(cls) ==
  O([n \in RequiredNames(cls) |->
       IF n = "type" THEN CHOOSE c \in DiscriminatorValues(cls, "type") : TRUE
       ELSE RequiredSample[n]])

VariantSet == {LayerVariants[i] : i \in 1..Len(LayerVariants)}

AxisName(i) == "d" \o ToString(i)

\* a coordinate space of r axes, each (1, "nm")
Space(r) == O([a \in {AxisName(i) : i \in 1..r} |-> L(<<I(1), S("nm")>>)])

SpaceSample ==
  O([x |-> L(<<I(1), S("nm")>>),
     c |-> L(<<Null, Null, O([coordinates |-> L(<<S("0"), I(1)>>), labels |-> L(<<S("r")>>)])>>)])

\* a matrix of the given rows and columns; `ragged` shortens the last row
Matrix(rows, cols, ragged) ==
  L([i \in 1..rows |->
       L([j \in 1..(IF ragged /\ i = rows /\ cols > 0 THEN cols - 1 ELSE cols) |->
            IF i = j THEN I(1) ELSE I(0)])])

TransformDoc(r, rows, cols, ragged, withInput) ==
  LET base == [outputDimensions |-> Space(r), matrix |-> Matrix(rows, cols, ragged)]
  IN O(IF withInput THEN WithKey(base, "inputDimensions", Space(r)) ELSE base)

DataSource(f) == O([url |-> Url, subsources |-> O([default |-> B(TRUE)])] @@ f)

TransformDocs ==
  {TransformDoc(r, rows, cols, ragged, withInput) :
     r \in 1..MaxRank, rows \in 0..MaxRank, cols \in 1..(MaxRank + 1),
     ragged \in BOOLEAN, withInput \in BOOLEAN}

PanelSample == O([tabs |-> L(<<S("source")>>), side |-> S("left"), row |-> S("1")])

AnnotationCoords ==
  {EmptyFn,
   [point |-> L(<<I(1), I(2)>>)],
   [pointA |-> L(<<I(0)>>), pointB |-> L(<<Fl(150)>>)],
   [center |-> L(<<I(0)>>), radii |-> L(<<I(1)>>)],
   [point |-> L(<<I(1)>>), pointA |-> L(<<I(0)>>), pointB |-> L(<<I(1)>>)]}

AnnotationTypeNames == {"point", "line", "ellipsoid", "axis_aligned_bounding_box", "Point"}

AnnotationDocs ==
  {O([type |-> S(ty), props |-> L(<<S("1"), S("red")>>)] @@ c) :
     ty \in AnnotationTypeNames, c \in AnnotationCoords}

ToolDocs == {O([type |-> S(s)]) : s \in {"blend", "Blend", "skeletonRendering.mode2d", "pan"}}

\* key/value items put on top of a minimal layer: every optional key of every
\* variant, with values the owning variant accepts (some only by coercion)
LayerItems ==
  {<<"visible", B(TRUE)>>, <<"visible", S("yes")>>, <<"tab", S("source")>>,
   <<"layerDimensions", SpaceSample>>, <<"layerPosition", S("1.5")>>,
   <<"layerPosition", I(1)>>, <<"panels", L(<<PanelSample>>)>>, <<"pick", I(0)>>,
   <<"annotationColor", S("#ff0000")>>,
   <<"source", I(2)>>, <<"source", L(<<Url, DataSource(EmptyFn)>>)>>,
   <<"source", DataSource([enableDefaultSubsources |-> Null])>>,
   <<"shaderControls", Fl(50)>>, <<"shaderControls", S("1.5")>>,
   <<"shaderControls", S("abc")>>, <<"shaderControls", O(EmptyFn)>>,
   <<"shaderControls", O([range |-> L(<<I(0), I(1)>>)])>>,
   <<"shaderControls", O([range |-> I(1)])>>,
   <<"shaderControls", O([gain |-> I(2)])>>,
   <<"opacity", Fl(50)>>, <<"opacity", S("0.5")>>, <<"blend", S("additive")>>,
   <<"crossSectionRenderScale", I(2)>>,
   <<"segments", L(<<S("1"), I(2)>>)>>, <<"equivalences", O([x \in {"1"} |-> S("2")])>>,
   <<"hideSegmentZero", B(FALSE)>>, <<"hideSegmentZero", S("no")>>,
   <<"selectedAlpha", Fl(25)>>, <<"notSelectedAlpha", I(1)>>, <<"objectAlpha", Fl(50)>>,
   <<"saturation", S("0.5")>>, <<"ignoreNullVisibleSet", I(0)>>,
   <<"skeletonRendering", O([shader |-> S("s"), shaderControls |-> S("c"), lineWidth2d |-> Null])>>,
   <<"colorSeed", I(1)>>, <<"colorSeed", S("2")>>, <<"colorSeed", Fl(150)>>,
   <<"meshRenderScale", I(2)>>, <<"meshSilhouetteRendering", Fl(50)>>,
   <<"segmentQuery", S("q")>>, <<"segmentColors", O([x \in {"1"} |-> S("#fff")])>>,
   <<"segmentDefaultColor", S("#fff")>>, <<"linkedSegmentationGroup", S("g")>>,
   <<"linkedSegmentationColorGroup", S("g")>>, <<"linkedSegmentationColorGroup", B(FALSE)>>,
   <<"vertexAttributeSources", L(<<S("v")>>)>>,
   <<"vertexAttributeNames", L(<<S("n"), Null>>)>>, <<"shader", S("void main(){}")>>,
   <<"annotationProperties", L(<<O([id |-> S("p"), type |-> S("rgb"), default |-> S("1.5")])>>)>>,
   <<"annotationRelationships", L(<<S("r")>>)>>,
   <<"linkedSegmentationLayer", O([r |-> S("a")])>>, <<"linkedSegmentationLayer", L(<<>>)>>,
   <<"filterBySegmentation", L(<<S("r")>>)>>, <<"ignoreNullSegmentFilter", B(FALSE)>>,
   <<"zzUnknown", I(1)>>}
  \cup {<<n, Null>> : n \in UNION {FieldNames(cls) : cls \in VariantSet}}
  \cup {<<"source", DataSource([transform |-> tr])>> : tr \in TransformDocs}
  \cup {<<"annotations", L(<<a>>)>> : a \in AnnotationDocs}
  \cup {<<"tool", tl>> : tl \in ToolDocs}
  \cup {<<"tool_bindings", O([A |-> tl])>> : tl \in ToolDocs}
  \cup {<<"type", S(s)>> : s \in {"Image", "volume", "image", "new"}}

LayerDocs ==
  {MinimalLayer(cls) : cls \in VariantSet}
  \cup {O(Without(MinimalLayer(cls).f, "type")) : cls \in VariantSet}
  \cup {O(WithKey(MinimalLayer(cls).f, it[1], it[2])) : cls \in VariantSet, it \in LayerItems}

(***************************************************************************)
(* Layout documents.                                                       *)
(***************************************************************************)
\* the forms in which a document can give a Linked[T] field whose T-value is v
LinkedForms(v) ==
  {v,
   O([link |-> S("linked"), value |-> v]),
   O([link |-> S("unlinked"), value |-> v]),
   O([value |-> v]),
   O([link |-> S("relative")]),
   O(EmptyFn),
   O([link |-> S("Linked"), value |-> v]),
   O([link |-> S("locked"), value |-> v]),
   O([link |-> Null, value |-> v]),
   O([link |-> S("linked"), value |-> v, zzUnknown |-> I(1)]),
   O([link |-> S("linked"), value |-> S("far")])}

PositionValues == {L(<<I(1), Fl(150), S("2")>>), L(<<>>)}

OrientationValues == {L(<<I(0), I(0), I(0), I(1)>>)}

ScaleValues == {Fl(150), I(2)}

CrossSectionBase ==
  [position |-> O([value |-> L(<<I(1)>>)]),
   orientation |-> O([value |-> L(<<I(0), I(0), I(0), I(1)>>)]),
   scale |-> O([value |-> I(1)])]

CrossSectionDocs ==
  {O(CrossSectionBase), O(WithKey(CrossSectionBase, "width", S("2"))),
   O(WithKey(CrossSectionBase, "height", Null))}
  \cup {O(WithKey(CrossSectionBase, "position", x)) :
          x \in UNION {LinkedForms(v) : v \in PositionValues}}
  \cup {O(WithKey(CrossSectionBase, "orientation", x)) :
          x \in UNION {LinkedForms(v) : v \in OrientationValues}}
  \cup {O(WithKey(CrossSectionBase, "scale", x)) :
          x \in UNION {LinkedForms(v) : v \in ScaleValues}}

PanelLayout(type, cs) == O([type |-> type, crossSections |-> O([a |-> cs])])

DataPanelLayoutDocs ==
  {PanelLayout(S("xy"), cs) : cs \in CrossSectionDocs}
  \cup {PanelLayout(ty, O(CrossSectionBase)) : ty \in {S("4panel"), S("XY"), S("bogus"), I(3)}}
  \cup {O([type |-> S("xy"), crossSections |-> O(EmptyFn), orthographicProjection |-> S("on")])}

GroupViewerBase ==
  [type |-> S("viewer"), layers |-> L(<<S("a")>>),
   layout |-> PanelLayout(S("xy"), O(CrossSectionBase)),
   position |-> O([value |-> L(<<I(1)>>)]),
   crossSectionOrientation |-> O([value |-> L(<<I(0), I(0), I(0), I(1)>>)]),
   crossSectionScale |-> O([value |-> I(1)]),
   crossSectionDepth |-> O([link |-> S("unlinked")]),
   projectionOrientation |-> O(EmptyFn),
   projectionScale |-> O([value |-> I(1)]),
   projectionDepth |-> O([value |-> I(1)])]

LayerGroupViewerDocs ==
  {O(GroupViewerBase)}
  \cup {O(WithKey(GroupViewerBase, "type", ty)) : ty \in {S("xy"), S("bogus")}}
  \cup {O(WithKey(GroupViewerBase, "crossSectionScale", x)) :
          x \in UNION {LinkedForms(v) : v \in ScaleValues}}
  \cup {O(WithKey(GroupViewerBase, "position", x)) :
          x \in UNION {LinkedForms(v) : v \in PositionValues}}

LeafLayouts == {S("xy"), PanelLayout(S("xy"), O(CrossSectionBase))}

\* StackLayout documents nested d deep: every level holds one further stack
\* (and, when wide, a leaf beside it); the innermost holds `bottom`
RECURSIVE StackDoc(_, _, _, _)
StackDoc(d, dir, wide, bottom) ==
  LET other == IF dir = "row" THEN "column" ELSE "row"
      inner == IF d = 1 THEN bottom ELSE <<StackDoc(d - 1, other, wide, bottom)>>
  IN O([type |-> S(dir),
        children |-> L(IF wide /\ d > 1 THEN inner \o <<S("xy")>> ELSE inner)])

StackDocs ==
  {StackDoc(d, dir, wide, bottom) :
     d \in 1..MaxDepth, dir \in {"row", "column"}, wide \in BOOLEAN,
     bottom \in {<<>>} \cup {<<leaf>> : leaf \in LeafLayouts}}

LayoutDocs ==
  {S("4panel"), S("bogus"), I(3), Null, L(<<>>)}
  \cup DataPanelLayoutDocs \cup LayerGroupViewerDocs \cup StackDocs

(***************************************************************************)
(* Root documents.                                                         *)
(***************************************************************************)
RootBase == [layers |-> L(<<MinimalLayer(ImageLayer)>>), layout |-> S("4panel")]

RootItems ==
  {<<"title", S("t")>>, <<"title", I(1)>>, <<"dimensions", SpaceSample>>,
   <<"dimensions", L(<<>>)>>,
   <<"relativeDisplayScales", O([x |-> I(1)])>>, <<"displayDimensions", L(<<S("x")>>)>>,
   <<"position", L(<<I(1), Fl(150), S("2")>>)>>, <<"position", L(<<I(1)>>)>>,
   <<"crossSectionOrientation", L(<<I(0), I(0), I(0), I(1)>>)>>,
   <<"crossSectionScale", S("1.5")>>, <<"crossSectionDepth", I(1)>>,
   <<"projectionScale", Fl(150)>>, <<"projectionDeth", I(1)>>,
   <<"projectionDepth", I(1)>>,
   <<"projectionOrientation", L(<<I(0), I(0), I(0), I(1)>>)>>,
   <<"showSlices", B(FALSE)>>, <<"showAxisLines", S("off")>>, <<"showScaleBar", I(0)>>,
   <<"showDefaultAnnotations", S("maybe")>>, <<"gpuMemoryLimit", Fl(150)>>,
   <<"systemMemoryLimit", S("2")>>, <<"concurrentDownloads", I(2)>>,
   <<"prefetch", B(FALSE)>>, <<"crossSectionBackgroundColor", S("#000")>>,
   <<"projectionBackgroundColor", I(0)>>,
   <<"selectedLayer", O([layer |-> S("a"), visible |-> B(TRUE), size |-> Fl(150)])>>,
   <<"selectedLayer", O([tab |-> S("source")])>>,
   <<"statistics", O([flex |-> Null, side |-> S("left")])>>,
   <<"helpPanel", O(EmptyFn)>>, <<"layerListPanel", O([row |-> S("1"), col |-> I(0)])>>,
   <<"partialViewport", L(<<I(0), I(0), Fl(50), Fl(50)>>)>>,
   <<"selection", O([a |-> I(1)])>>,
   <<"layers", L(<<>>)>>,
   <<"layers", L(<<MinimalLayer(NewLayer), MinimalLayer(MeshLayer)>>)>>,
   <<"layers", MinimalLayer(ImageLayer)>>}
  \cup {<<n, Null>> : n \in FieldNames(ViewerState)}

ViewerStateDocs ==
  {O(RootBase), O(Without(RootBase, "layout")), O(Without(RootBase, "layers")), L(<<>>)}
  \cup {O(WithKey(RootBase, "layers", L(<<ld>>))) : ld \in LayerDocs}
  \cup {O(WithKey(RootBase, "layout", lo)) : lo \in LayoutDocs}
  \cup {O(WithKey(RootBase, it[1], it[2])) : it \in RootItems}

Inputs(name) ==
  CASE name = "ViewerState" -> ViewerStateDocs
    [] name = "StackLayout" -> StackDocs

UnknownKey == "zzUnknown"

NoResult == [ok |-> FALSE, val |-> Null, errs |-> <<>>]

(***************************************************************************)
(* The state machine: a document is validated; an accepted one is          *)
(* serialized and validated again, or is given one unknown key at one of   *)
(* its objects and validated again.                                        *)
(***************************************************************************)
Init ==
  /\ target \in {"ViewerState", "StackLayout"}
  /\ doc \in Inputs(target)
  /\ phase = "raw"
  /\ res = NoResult
  /\ doc2 = Null
  /\ res2 = NoResult
  /\ edit = <<>>

DoValidate ==
  /\ phase = "raw"
  /\ res' = validate(target, doc)
  /\ phase' = "validated"
  /\ UNCHANGED <<target, doc, doc2, res2, edit>>

DoSerialize ==
  /\ phase = "validated"
  /\ res.ok
  /\ doc2' = serialize(res.val)
  /\ phase' = "serialized"
  /\ UNCHANGED <<target, doc, res, res2, edit>>

DoRevalidate ==
  /\ phase = "serialized"
  /\ res2' = validate(target, doc2)
  /\ phase' = "revalidated"
  /\ UNCHANGED <<target, doc, res, doc2, edit>>

AddUnknownKey ==
  /\ phase = "validated"
  /\ res.ok
  /\ \E p \in ModelPaths(res.val) :
       /\ HasPath(doc, p)
       /\ GetAt(doc, p).k = "obj"
       /\ UnknownKey \notin DOMAIN GetAt(doc, p).f
       /\ edit' = p
       /\ doc2' = ReplaceAt(doc, p, O(WithKey(GetAt(doc, p).f, UnknownKey, I(1))))
       /\ res2' = validate(target, doc2')
  /\ phase' = "extended"
  /\ UNCHANGED <<target, doc, res>>

Next == DoValidate \/ DoSerialize \/ DoRevalidate \/ AddUnknownKey

Spec == Init /\ [][Next]_vars

(***************************************************************************)
(* Views of the current document and its result.                           *)
(***************************************************************************)
Checked == phase # "raw"

RootDoc == target = "ViewerState" /\ doc.k = "obj"

\* the root holds exactly one layer document, an object
OneLayer ==
  /\ RootDoc
  /\ "layers" \in DOMAIN doc.f
  /\ doc.f.layers.k = "list"
  /\ Len(doc.f.layers.items) = 1
  /\ doc.f.layers.items[1].k = "obj"

LayerDoc == doc.f.layers.items[1]

LayerVal == res.val.f.layers.items[1]

RootWithLayer(ld) == O(WithKey(RootBase, "layers", L(<<ld>>)))

HasError(r, loc, type) == \E i \in 1..Len(r.errs) : r.errs[i] = [loc |-> loc, type |-> type]

IsPrefix(p, q) == Len(p) <= Len(q) /\ SubSeq(q, 1, Len(p)) = p

\* the layer document's `type` is a discriminator value of cls
Selects(ld, cls) ==
  "type" \in DOMAIN ld.f /\ ld.f.type \in DiscriminatorValues(cls, "type")

MissingDiscriminator == "value_error.discriminated_union.missing_discriminator"

UnknownField == "value_error.extra"

(***************************************************************************)
(* C3.  Layer discriminator completeness: for each of the five layer       *)
(* variants, the layer document holding only the variant's required fields *)
(* (with `type`) validates and resolves to exactly that variant; the same  *)
(* document without `type` is rejected, with the MissingDiscriminator      *)
(* error at the layer and no other error (no variant is tried by fields).  *)
(***************************************************************************)
DiscriminatorCompleteness ==
  (Checked /\ target = "ViewerState") =>
    \A cls \in VariantSet :
      /\ doc = RootWithLayer(MinimalLayer(cls)) =>
           /\ res.ok
           /\ LayerVal.k = "model"
           /\ LayerVal.cls = cls.name
           /\ LayerVal.f.type = CHOOSE c \in DiscriminatorValues(cls, "type") : TRUE
      /\ doc = RootWithLayer(O(Without(MinimalLayer(cls).f, "type"))) =>
           /\ ~res.ok
           /\ res.errs = <<[loc |-> <<"layers", "0">>, type |-> MissingDiscriminator]>>

MissingTypeRejected ==
  /\ phase = "validated"
  /\ doc = RootWithLayer(O(Without(MinimalLayer(MeshLayer).f, "type")))
  /\ ~res.ok
  /\ HasError(res, <<"layers", "0">>, MissingDiscriminator)

(***************************************************************************)
(* C7.  Variant field exclusivity: a layer document whose `type` selects   *)
(* one variant and which carries a key declared only on other variants is  *)
(* rejected: the stray key is an unknown field of the selected variant,    *)
(* and every error lies under the variant that `type` selected (no other   *)
(* variant is tried).                                                      *)
(***************************************************************************)
StrayFields(cls) == UNION {FieldNames(c) : c \in VariantSet} \ FieldNames(cls)

VariantFieldExclusivity ==
  (Checked /\ OneLayer) =>
    \A cls \in VariantSet :
      (Selects(LayerDoc, cls) /\ DOMAIN LayerDoc.f \cap StrayFields(cls) # {}) =>
        /\ ~res.ok
        /\ \A key \in DOMAIN LayerDoc.f \cap StrayFields(cls) :
             HasError(res, <<"layers", "0", cls.name, key>>, UnknownField)
        /\ \A i \in 1..Len(res.errs) : IsPrefix(<<"layers", "0", cls.name>>, res.errs[i].loc)

ImageWithSegmentsRejected ==
  /\ phase = "validated"
  /\ OneLayer
  /\ Selects(LayerDoc, ImageLayer)
  /\ "segments" \in DOMAIN LayerDoc.f
  /\ LayerDoc.f.segments # Null
  /\ ~res.ok
  /\ HasError(res, <<"layers", "0", "ImageLayer", "segments">>, UnknownField)

(***************************************************************************)
(* C2.  Round trip: every accepted document, serialized and validated      *)
(* again, is accepted again and yields a ViewerState deep-equal to the     *)
(* first: same classes at every model (layer and layout variants           *)
(* included), equal field values, equal defaults.                          *)
(***************************************************************************)
RoundTrip ==
  phase = "revalidated" => (res2.ok /\ PyEq(res2.val, res.val))

RoundTripOfNullAndVariants ==
  /\ phase = "revalidated"
  /\ target = "ViewerState"
  /\ OneLayer
  /\ LayerVal.cls = "SegmentationLayer"
  /\ LayerVal.f.hideSegmentZero = Null
  /\ res2.ok
  /\ res2.val.f.layers.items[1].f.hideSegmentZero = Null
  /\ doc2 # doc

(***************************************************************************)
(* C6.  Defaults, absent versus null.  For every layer field with a        *)
(* declared default: a document omitting the key yields the default; a     *)
(* document carrying the key with null never yields the default: null is   *)
(* kept where the field is declared Optional and rejected where it is not  *)
(* (ImageLayer.opacity).                                                   *)
(***************************************************************************)
DefaultedFields(cls) ==
  {cls.fields[i] : i \in {j \in 1..Len(cls.fields) : cls.fields[j].default # Null}}

NullDoc(cls, fd) == RootWithLayer(O(WithKey(MinimalLayer(cls).f, fd.name, Null)))

NullNeverDefault(cls, fd) ==
  doc = NullDoc(cls, fd) => ~(res.ok /\ PyEq(LayerVal.f[fd.name], fd.default))

OmittedYieldsDefault(cls, fd) ==
  /\ (Selects(LayerDoc, cls) /\ fd.name \notin DOMAIN LayerDoc.f /\ res.ok) =>
        LayerVal.f[fd.name] = fd.default
  /\ doc = RootWithLayer(MinimalLayer(cls)) => res.ok

DefaultsAbsentVersusNull ==
  (Checked /\ OneLayer) =>
    /\ \A cls \in VariantSet : \A fd \in DefaultedFields(cls) :
         /\ OmittedYieldsDefault(cls, fd)
         /\ NullNeverDefault(cls, fd)
         /\ doc = NullDoc(cls, fd) =>
              IF fd.type.t = "optional"
              THEN res.ok /\ LayerVal.f[fd.name] = Null
              ELSE /\ ~res.ok
                   /\ res.errs = <<[loc |-> <<"layers", "0", cls.name, fd.name>>,
                                    type |-> "type_error.none.not_allowed"]>>
    /\ doc = RootWithLayer(MinimalLayer(SegmentationLayer)) =>
         /\ LayerVal.f.hideSegmentZero = B(TRUE)
         /\ LayerVal.f.selectedAlpha = Fl(50)
         /\ LayerVal.f.colorSeed = I(0)
         /\ LayerVal.f.meshRenderScale = Fl(1000)
    /\ doc = RootWithLayer(MinimalLayer(ImageLayer)) => LayerVal.f.opacity = Fl(5)

\* the claim as first stated: null is treated the same way for every such field
NullTreatedAlikeForEveryDefault ==
  (Checked /\ OneLayer) =>
    \A cls \in VariantSet : \A fd \in DefaultedFields(cls) :
      /\ OmittedYieldsDefault(cls, fd)
      /\ NullNeverDefault(cls, fd)
      /\ doc = NullDoc(cls, fd) =>
           \A cls2 \in VariantSet : \A fd2 \in DefaultedFields(cls2) :
             validate(target, NullDoc(cls2, fd2)).ok = res.ok

NullColorSeedKept ==
  /\ phase = "validated"
  /\ doc = NullDoc(SegmentationLayer, CHOOSE fd \in DefaultedFields(SegmentationLayer) : fd.name = "colorSeed")
  /\ res.ok
  /\ LayerVal.f.colorSeed = Null

(***************************************************************************)
(* C1.  Closed world: an accepted document, given one unrecognized key at  *)
(* any of its objects (root, layer, data source, transform, panel state,   *)
(* layout object, cross-section, Linked object), is rejected, with exactly *)
(* one UnknownField error, and that error names the key's path.            *)
(***************************************************************************)
VariantNames == {cls.name : cls \in VariantSet}

\* an error location without the variant names a discriminated union inserts
KeyPath(loc) == SelectSeq(loc, LAMBDA s : s \notin VariantNames)

UnknownFieldErrors(r) == SelectSeq(r.errs, LAMBDA e : e.type = UnknownField)

ClosedWorld ==
  (phase = "extended" /\ target = "ViewerState") =>
    /\ ~res2.ok
    /\ Len(UnknownFieldErrors(res2)) = 1
    /\ KeyPath(UnknownFieldErrors(res2)[1].loc) = edit \o <<UnknownKey>>

(***************************************************************************)
(* C4.  Recursive layout: a ViewerState whose layout is a StackLayout      *)
(* nested 5 levels deep with valid leaves validates; a StackLayout whose   *)
(* children sequence is empty is rejected.                                 *)
(***************************************************************************)
IsStack(v) ==
  /\ v.k = "obj"
  /\ DOMAIN v.f = {"type", "children"}
  /\ v.f.type \in {S("row"), S("column")}
  /\ v.f.children.k = "list"

\* v is a stack nested d deep: some child chain of d stacks, all other
\* children valid leaf layouts, no stack without children
RECURSIVE NestedStack(_, _)
NestedStack(v, d) ==
  /\ IsStack(v)
  /\ Len(v.f.children.items) > 0
  /\ \A i \in 1..Len(v.f.children.items) :
       LET c == v.f.children.items[i]
       IN IF c.k = "obj" /\ "children" \in DOMAIN c.f
          THEN d > 1 /\ NestedStack(c, d - 1)
          ELSE Validate(LayoutSpecification, c, <<>>).ok
  /\ d > 1 => \E i \in 1..Len(v.f.children.items) :
                 LET c == v.f.children.items[i]
                 IN c.k = "obj" /\ "children" \in DOMAIN c.f

EmptyStack(v) == IsStack(v) /\ Len(v.f.children.items) = 0

RecursiveLayout ==
  Checked =>
    /\ (RootDoc /\ "layout" \in DOMAIN doc.f /\ "layers" \in DOMAIN doc.f
        /\ NestedStack(doc.f.layout, 5)) => res.ok
    /\ (RootDoc /\ "layout" \in DOMAIN doc.f /\ EmptyStack(doc.f.layout)) => ~res.ok
    /\ (target = "StackLayout" /\ EmptyStack(doc)) => ~res.ok

(***************************************************************************)
(* C5.  Linked<T>: at every field declared Linked[T], a bare value v valid *)
(* for T is accepted and yields the same result as {link: "linked",        *)
(* value: v}; an object without `link` gets link "linked"; an object       *)
(* without `value` is accepted.                                            *)
(***************************************************************************)
IsLinkedField(fd) == fd.type.t = "model" /\ fd.type.cls.name = "Linked"

\* the T of a field declared Linked[T]
LinkedValueType(fd) ==
  (fd.type.cls.fields[CHOOSE i \in 1..Len(fd.type.cls.fields) :
                        fd.type.cls.fields[i].name = "value"]).type.e

LinkedFields(cls) ==
  {cls.fields[i] : i \in {j \in 1..Len(cls.fields) : IsLinkedField(cls.fields[j])}}

\* where the current document holds a Linked field: its path and its T
LinkedSites ==
  IF ~(RootDoc /\ "layout" \in DOMAIN doc.f /\ doc.f.layout.k = "obj") THEN {}
  ELSE LET lo == doc.f.layout
           sections(v, at) ==
             IF v.k = "obj" /\ "crossSections" \in DOMAIN v.f /\ v.f.crossSections.k = "obj"
             THEN {[path |-> at \o <<"crossSections", c, fd.name>>, T |-> LinkedValueType(fd)] :
                     c \in DOMAIN v.f.crossSections.f, fd \in LinkedFields(CrossSection)}
             ELSE {}
       IN IF "layers" \in DOMAIN lo.f
          THEN {[path |-> <<"layout", fd.name>>, T |-> LinkedValueType(fd)] :
                  fd \in LinkedFields(LayerGroupViewer)}
               \cup (IF "layout" \in DOMAIN lo.f
                     THEN sections(lo.f.layout, <<"layout", "layout">>) ELSE {})
          ELSE sections(lo, <<"layout">>)

LinkedShorthand ==
  Checked =>
    \A site \in {s \in LinkedSites : HasPath(doc, s.path)} :
      LET x == GetAt(doc, site.path)
          explicit(v) == validate(target, ReplaceAt(doc, site.path, O([link |-> S("linked"), value |-> v])))
      IN /\ (x.k # "obj" /\ Validate(site.T, x, <<>>).ok /\ explicit(x).ok) =>
              (res.ok /\ PyEq(res.val, explicit(x).val))
         /\ (x.k = "obj" /\ "link" \notin DOMAIN x.f /\ res.ok) =>
              GetAt(res.val, site.path).f.link = S("linked")
         /\ (x.k = "obj" /\ DOMAIN x.f = {"link"} /\ explicit(Null).ok
             /\ x.f.link \in NavigationLinkType.vals) => res.ok

(***************************************************************************)
(* C8.  Transform rank consistency: every accepted CoordinateSpace-        *)
(* Transform has a rectangular matrix with as many rows as                 *)
(* outputDimensions has axes and input rank + 1 columns (so 3 output axes  *)
(* with a 2-row matrix is rejected).                                       *)
(***************************************************************************)
InputRank(tr) ==
  IF tr.f.inputDimensions # Null THEN Cardinality(DOMAIN tr.f.inputDimensions.f)
  ELSE IF tr.f.sourceRank # Null THEN tr.f.sourceRank.n
  ELSE Cardinality(DOMAIN tr.f.outputDimensions.f)

RankConsistent(tr) ==
  /\ Len(tr.f.matrix.items) = Cardinality(DOMAIN tr.f.outputDimensions.f)
  /\ \A i \in 1..Len(tr.f.matrix.items) :
       Len(tr.f.matrix.items[i].items) = InputRank(tr) + 1

TransformRankConsistency ==
  (Checked /\ OneLayer /\ res.ok /\ LayerVal.f.source.k = "model"
   /\ LayerVal.f.source.f.transform # Null) =>
    RankConsistent(LayerVal.f.source.f.transform)

(***************************************************************************)
(* C9.  Closed enums: a value that is present and is no exact member of    *)
(* the field's literal set is rejected, at a layer's `type`, a layout's    *)
(* `type` (DataPanelLayout, LayerGroupViewer), a Linked `link` and a       *)
(* Tool's `type`.                                                          *)
(***************************************************************************)
DeclaredLayoutTypes == DataPanelLayoutTypes.vals \cup {S("row"), S("column")}

BadToolDoc(v) ==
  v.k = "obj" /\ "type" \in DOMAIN v.f /\ v.f.type.k = "str" /\ v.f.type.s \notin ToolNameEnum

ClosedEnums ==
  Checked =>
    /\ (OneLayer /\ "type" \in DOMAIN LayerDoc.f /\ LayerDoc.f.type.k = "str"
        /\ LayerDoc.f.type \notin LayerTypeLiteral.vals) => ~res.ok
    /\ (RootDoc /\ "layout" \in DOMAIN doc.f /\ doc.f.layout.k = "obj"
        /\ "type" \in DOMAIN doc.f.layout.f /\ doc.f.layout.f.type.k = "str"
        /\ doc.f.layout.f.type \notin DeclaredLayoutTypes) => ~res.ok
    /\ \A site \in {s \in LinkedSites : HasPath(doc, s.path)} :
         LET x == GetAt(doc, site.path)
         IN (x.k = "obj" /\ "link" \in DOMAIN x.f /\ x.f.link.k = "str"
             /\ x.f.link \notin NavigationLinkType.vals) => ~res.ok
    /\ (OneLayer /\ "tool" \in DOMAIN LayerDoc.f /\ BadToolDoc(LayerDoc.f.tool)) => ~res.ok
    /\ (OneLayer /\ "tool_bindings" \in DOMAIN LayerDoc.f
        /\ LayerDoc.f.tool_bindings.k = "obj"
        /\ \E b \in DOMAIN LayerDoc.f.tool_bindings.f :
             BadToolDoc(LayerDoc.f.tool_bindings.f[b])) => ~res.ok

(***************************************************************************)
(* C10.  Annotation resolution follows the annotation's `type`: every      *)
(* accepted annotation is resolved to the shape its `type` names, so an    *)
(* annotation whose `type` names one shape and whose coordinate fields are *)
(* another's (type "ellipsoid" with only `point`) is rejected.             *)
(***************************************************************************)
ShapeOf ==
  [point |-> PointAnnotation.name, line |-> LineAnnotation.name,
   ellipsoid |-> EllipsoidAnnotation.name,
   axis_aligned_bounding_box |-> AxisAlignedBoundingBoxAnnotation.name]

AnnotationFollowsType ==
  (Checked /\ OneLayer /\ res.ok /\ LayerVal.cls = AnnotationLayer.name
   /\ LayerVal.f.annotations # Null) =>
    \A i \in 1..Len(LayerVal.f.annotations.items) :
      LET a == LayerVal.f.annotations.items[i]
      IN a.f.type.s \in DOMAIN ShapeOf /\ a.cls = ShapeOf[a.f.type.s]

====
